---- MODULE Spec2Model ----
(***************************************************************************)
(* Solar-tracking canopy controller (src/main/main.c).                     *)
(*                                                                         *)
(* app_main is one sequential FreeRTOS task: it configures the servo PWM,  *)
(* the ADC and WiFi, waits 5 s, and then loops forever: read the two LDRs, *)
(* classify the sun direction, compute the tilt angle, drive the servo,    *)
(* send the four values to ThingSpeak, wait 15 s.                          *)
(*                                                                         *)
(* The drivers (LEDC, ADC, WiFi, HTTP client) are ESP-IDF code outside the *)
(* repository; the result of each driver call is a nondeterministic choice *)
(* between ESP_OK and an error, and the WiFi association completes (or     *)
(* not) on its own, independently of the task.                             *)
(***************************************************************************)
EXTENDS Integers, Sequences, FiniteSets

VARIABLES
    pc,              \* position of the app_main task
    cycle,           \* number of loop iterations started
    wifi,            \* state of the station: "off", "connecting", "connected"
    servo_cfg,       \* the SERVO_* macros the build was compiled with
    ldr_east,        \* app_main local
    ldr_west,        \* app_main local
    sun_dir,         \* app_main local
    tilt_angle,      \* app_main local
    pulse_width_us,  \* set_servo_angle local
    duty,            \* set_servo_angle local: the value handed to ledc_set_duty
    ledc_duty,       \* LEDC channel: duty staged by ledc_set_duty
    ledc_out,        \* LEDC channel: duty in effect after ledc_update_duty
    url,             \* send_to_thingspeak local: the request of the last attempt
    http_err,        \* result of the last esp_http_client_perform
    err_site,        \* the checked driver call that returned an error, if any
    n_read,          \* read_ldr_values calls that returned
    n_drive,         \* ledc_set_duty calls made
    n_send           \* esp_http_client_perform calls made

vars == <<pc, cycle, wifi, servo_cfg, ldr_east, ldr_west, sun_dir, tilt_angle,
          pulse_width_us, duty, ledc_duty, ledc_out, url, http_err, err_site,
          n_read, n_drive, n_send>>

---------------------------------------------------------------------------
(* Bounds of the model *)

\* loop iterations explored
MaxCycles == 3
\* compute_tilt_angle is tried on arguments this far outside SUN_EAST..SUN_WEST
MaxStray == 3
\* set_servo_angle is tried on angles this far outside 0..180
MaxOver == 20

---------------------------------------------------------------------------
(* Program constants *)

SERVO_MIN_US == 500
SERVO_MAX_US == 2400
SERVO_PERIOD_US == 20000
SERVO_MAX_DUTY == 8191

SUN_EAST == 0
SUN_OVERHEAD == 1
SUN_WEST == 2

LDR_THRESHOLD == 150

\* sizeof(url)
URL_SIZE == 256
\* strlen("http://api.thingspeak.com/update?api_key=")
URL_HEAD_LEN == 41
\* strlen(THINGSPEAK_API_KEY)
API_KEY_LEN == 16
\* strlen("&field1=")
FIELD_TAG_LEN == 8

THINGSPEAK_API_KEY == "JA0W2AWRBR5KH8ZF"

ESP_OK == "ESP_OK"
ESP_FAIL == "ESP_FAIL"
EspErr == {ESP_OK, ESP_FAIL}

\* Values the 12-bit ADC can return (0..4095), sampled: the extremes, the
\* readings of the documented scenarios, and pairs whose difference is
\* exactly 150 (2000/1850) and 151 (1651/1500).
Readings == {0, 1000, 1500, 1600, 1651, 1800, 1850, 2000, 4095}

\* The macros of the build, as a record.
DefaultServoCfg ==
    [min_us |-> SERVO_MIN_US, max_us |-> SERVO_MAX_US,
     period_us |-> SERVO_PERIOD_US, max_duty |-> SERVO_MAX_DUTY]

---------------------------------------------------------------------------
(* Helpers *)

Min(a, b) == IF a < b THEN a ELSE b
Max(a, b) == IF a > b THEN a ELSE b

\* C integer division truncates toward zero.
CDiv(a, b) ==
    IF (a >= 0) = (b > 0) THEN (IF a >= 0 THEN a \div b ELSE (-a) \div (-b))
    ELSE -((IF a >= 0 THEN a ELSE -a) \div (IF b > 0 THEN b ELSE -b))

\* Faulty variant of clamp_int (the lower bound is forgotten); C3 must reject it.
clamp_int_upper_only(v, lo, hi) ==
    IF v > hi THEN hi
    ELSE v

clamp_int(v, lo, hi) ==
    IF v < lo THEN lo
    ELSE IF v > hi THEN hi
    ELSE v

\* Faulty variant (the error is ignored, as with assertions disabled); C7 must
\* reject it.
ESP_ERROR_CHECK_ignored(rc, next) == next

\* ESP_ERROR_CHECK(x): abort() unless x returned ESP_OK.
ESP_ERROR_CHECK(rc, next) == IF rc = ESP_OK THEN next ELSE "aborted"

\* The first call of a sequence of checked calls that fails ("none" if none).
RECURSIVE FirstFailure(_, _)
FirstFailure(rcs, names) ==
    IF rcs = <<>> THEN "none"
    ELSE IF Head(rcs) # ESP_OK THEN Head(names)
    ELSE FirstFailure(Tail(rcs), Tail(names))

\* Where a sequence of checked calls leaves the task.
RECURSIVE CheckAll(_, _)
CheckAll(rcs, next) ==
    IF rcs = <<>> THEN next
    ELSE IF ESP_ERROR_CHECK(Head(rcs), "ok") = "aborted" THEN "aborted"
    ELSE CheckAll(Tail(rcs), next)

\* printf's %d: the decimal digits of n as ASCII codes, '-' first if n < 0.
RECURSIVE Digits(_)
Digits(n) ==
    IF n < 10 THEN <<48 + n>>
    ELSE Digits(n \div 10) \o <<48 + (n % 10)>>

FormatD(n) == IF n < 0 THEN <<45>> \o Digits(-n) ELSE Digits(n)

\* The first `room` characters of s (none if room <= 0).
Keep(s, room) == SubSeq(s, 1, Min(Len(s), Max(room, 0)))

---------------------------------------------------------------------------
(* Pure functions of the decision pipeline *)

\* Faulty variant (non-strict comparisons); C1 must reject it.
detect_sun_direction_inclusive(east, west) ==
    LET horizontal_diff == east - west
    IN  IF horizontal_diff >= LDR_THRESHOLD THEN SUN_EAST
        ELSE IF horizontal_diff <= -LDR_THRESHOLD THEN SUN_WEST
        ELSE SUN_OVERHEAD

detect_sun_direction(east, west) ==
    LET horizontal_diff == east - west
    IN  IF horizontal_diff > LDR_THRESHOLD THEN SUN_EAST
        ELSE IF horizontal_diff < -LDR_THRESHOLD THEN SUN_WEST
        ELSE SUN_OVERHEAD

\* Faulty variant (no failsafe default); C2 must reject it.
compute_tilt_angle_no_default(sun_direction) ==
    CASE sun_direction = SUN_EAST -> 30
      [] sun_direction = SUN_WEST -> 150
      [] sun_direction = SUN_OVERHEAD -> 90
      [] OTHER -> 0

compute_tilt_angle(sun_direction) ==
    CASE sun_direction = SUN_EAST -> 30
      [] sun_direction = SUN_WEST -> 150
      [] OTHER -> 90

\* pulse_width_us of set_servo_angle, for an angle already clamped
\* Faulty variant (min_us is not subtracted from the span); C4 must reject it.
servo_pulse_width_no_offset(angle, cfg) ==
    cfg.min_us + CDiv(angle * cfg.max_us, 180)

servo_pulse_width(angle, cfg) ==
    cfg.min_us + CDiv(angle * (cfg.max_us - cfg.min_us), 180)

\* duty of set_servo_angle
\* Faulty variant (rounds to nearest instead of truncating); C5 must reject it.
servo_duty_rounded(pulse, cfg) ==
    CDiv(pulse * cfg.max_duty + cfg.period_us \div 2, cfg.period_us)

servo_duty(pulse, cfg) ==
    CDiv(pulse * cfg.max_duty, cfg.period_us)

\* The url snprintf leaves in the buffer: the api key and the four %d fields,
\* each cut where the URL_SIZE - 1 characters of the buffer end.
\* Faulty variant (field1 and field2 swapped); C10 must reject it.
thingspeak_url_swapped(east, west, sun, angle) ==
    [api_key |-> THINGSPEAK_API_KEY,
     field1 |-> FormatD(west), field2 |-> FormatD(east),
     field3 |-> FormatD(sun), field4 |-> FormatD(angle)]

thingspeak_url(east, west, sun, angle) ==
    LET f1 == FormatD(east)
        f2 == FormatD(west)
        f3 == FormatD(sun)
        f4 == FormatD(angle)
        at1 == URL_HEAD_LEN + API_KEY_LEN + FIELD_TAG_LEN
        at2 == at1 + Len(f1) + FIELD_TAG_LEN
        at3 == at2 + Len(f2) + FIELD_TAG_LEN
        at4 == at3 + Len(f3) + FIELD_TAG_LEN
    IN  [api_key |-> THINGSPEAK_API_KEY,
         field1 |-> Keep(f1, URL_SIZE - 1 - at1),
         field2 |-> Keep(f2, URL_SIZE - 1 - at2),
         field3 |-> Keep(f3, URL_SIZE - 1 - at3),
         field4 |-> Keep(f4, URL_SIZE - 1 - at4)]

NoUrl == [api_key |-> "", field1 |-> <<>>, field2 |-> <<>>,
          field3 |-> <<>>, field4 |-> <<>>]

\* Where send_to_thingspeak leaves the task after esp_http_client_perform:
\* both branches only print.
\* Faulty variants: the result is checked like a driver call (C6 must reject
\* it); the loop goes on without the delay (C9 must reject it).
after_perform_checked(err) == ESP_ERROR_CHECK(err, "delay")

after_perform_no_delay(err) == "read"

after_perform(err) == "delay"

\* What esp_http_client_perform can return: without an association there is
\* no route to the server.
PerformResults == IF wifi = "connected" THEN EspErr ELSE {ESP_FAIL}

---------------------------------------------------------------------------
(* Start-up: app_main before the loop *)

\* ledc_timer_config and ledc_channel_config (duty 0)
ServoSetup ==
    /\ pc = "servo_setup"
    /\ \E rcs \in [1..2 -> EspErr] :
         LET calls == <<"ledc_timer_config", "ledc_channel_config">>
             rcseq == <<rcs[1], rcs[2]>>
         IN  /\ pc' = CheckAll(rcseq, "adc_init")
             /\ err_site' = FirstFailure(rcseq, calls)
             /\ ledc_duty' = 0
             /\ ledc_out' = 0
    /\ UNCHANGED <<cycle, wifi, servo_cfg, ldr_east, ldr_west, sun_dir,
                   tilt_angle, pulse_width_us, duty, url, http_err,
                   n_read, n_drive, n_send>>

adc_init_oneshot ==
    /\ pc = "adc_init"
    /\ \E rcs \in [1..3 -> EspErr] :
         LET calls == <<"adc_oneshot_new_unit", "adc_oneshot_config_channel_east",
                        "adc_oneshot_config_channel_west">>
             rcseq == <<rcs[1], rcs[2], rcs[3]>>
         IN  /\ pc' = CheckAll(rcseq, "wifi_init")
             /\ err_site' = FirstFailure(rcseq, calls)
    /\ UNCHANGED <<cycle, wifi, servo_cfg, ldr_east, ldr_west, sun_dir,
                   tilt_angle, pulse_width_us, duty, ledc_duty, ledc_out, url,
                   http_err, n_read, n_drive, n_send>>

\* esp_wifi_connect only starts the association: it returns at once.
wifi_init ==
    /\ pc = "wifi_init"
    /\ \E rcs \in [1..8 -> EspErr] :
         LET calls == <<"nvs_flash_init", "esp_netif_init",
                        "esp_event_loop_create_default", "esp_wifi_init",
                        "esp_wifi_set_mode", "esp_wifi_set_config",
                        "esp_wifi_start", "esp_wifi_connect">>
             rcseq == <<rcs[1], rcs[2], rcs[3], rcs[4], rcs[5], rcs[6], rcs[7], rcs[8]>>
         IN  /\ pc' = CheckAll(rcseq, "settle")
             /\ err_site' = FirstFailure(rcseq, calls)
             /\ wifi' = IF FirstFailure(rcseq, calls) = "none" THEN "connecting" ELSE wifi
    /\ UNCHANGED <<cycle, servo_cfg, ldr_east, ldr_west, sun_dir,
                   tilt_angle, pulse_width_us, duty, ledc_duty, ledc_out, url,
                   http_err, n_read, n_drive, n_send>>

\* The access point accepts the station: not a step of the task.
WifiConnected ==
    /\ wifi = "connecting"
    /\ pc # "aborted"
    /\ wifi' = "connected"
    /\ UNCHANGED <<pc, cycle, servo_cfg, ldr_east, ldr_west, sun_dir,
                   tilt_angle, pulse_width_us, duty, ledc_duty, ledc_out, url,
                   http_err, err_site, n_read, n_drive, n_send>>

\* vTaskDelay(pdMS_TO_TICKS(5000)), then the first iteration of while (1)
SettleDelay ==
    /\ pc = "settle"
    /\ pc' = "read"
    /\ cycle' = cycle + 1
    /\ UNCHANGED <<wifi, servo_cfg, ldr_east, ldr_west, sun_dir,
                   tilt_angle, pulse_width_us, duty, ledc_duty, ledc_out, url,
                   http_err, err_site, n_read, n_drive, n_send>>

---------------------------------------------------------------------------
(* The control loop: while (1) of app_main *)

\* adc_oneshot_read of the east channel, then of the west channel
read_ldr_values ==
    /\ pc = "read"
    /\ \E rc_east \in EspErr, rc_west \in EspErr, e \in Readings, w \in Readings :
         LET rcseq == <<rc_east, rc_west>>
             calls == <<"adc_oneshot_read_east", "adc_oneshot_read_west">>
             east_done == ESP_ERROR_CHECK(rc_east, "ok") # "aborted"
             failed == FirstFailure(rcseq, calls)
         IN  /\ pc' = CheckAll(rcseq, "detect")
             /\ ldr_east' = IF rc_east = ESP_OK THEN e ELSE ldr_east
             /\ ldr_west' = IF east_done /\ rc_west = ESP_OK THEN w ELSE ldr_west
             /\ err_site' = IF failed = "none" THEN err_site ELSE failed
             /\ n_read' = IF CheckAll(rcseq, "detect") = "aborted" THEN n_read
                          ELSE n_read + 1
    /\ UNCHANGED <<cycle, wifi, servo_cfg, sun_dir, tilt_angle, pulse_width_us,
                   duty, ledc_duty, ledc_out, url, http_err, n_drive, n_send>>

\* int sun_dir = detect_sun_direction(ldr_east, ldr_west);
DetectStep ==
    /\ pc = "detect"
    /\ sun_dir' = detect_sun_direction(ldr_east, ldr_west)
    /\ pc' = "tilt"
    /\ UNCHANGED <<cycle, wifi, servo_cfg, ldr_east, ldr_west, tilt_angle,
                   pulse_width_us, duty, ledc_duty, ledc_out, url, http_err,
                   err_site, n_read, n_drive, n_send>>

\* int tilt_angle = compute_tilt_angle(sun_dir);
TiltStep ==
    /\ pc = "tilt"
    /\ tilt_angle' = compute_tilt_angle(sun_dir)
    /\ pc' = "servo"
    /\ UNCHANGED <<cycle, wifi, servo_cfg, ldr_east, ldr_west, sun_dir,
                   pulse_width_us, duty, ledc_duty, ledc_out, url, http_err,
                   err_site, n_read, n_drive, n_send>>

\* set_servo_angle(tilt_angle): clamp, pulse width, duty, ledc_set_duty,
\* ledc_update_duty
set_servo_angle ==
    /\ pc = "servo"
    /\ \E rc_set \in EspErr, rc_update \in EspErr :
         LET angle == clamp_int(tilt_angle, 0, 180)
             pw == servo_pulse_width(angle, servo_cfg)
             d == servo_duty(pw, servo_cfg)
             rcseq == <<rc_set, rc_update>>
             calls == <<"ledc_set_duty", "ledc_update_duty">>
             set_done == ESP_ERROR_CHECK(rc_set, "ok") # "aborted"
             failed == FirstFailure(rcseq, calls)
         IN  /\ pulse_width_us' = pw
             /\ duty' = d
             /\ ledc_duty' = IF rc_set = ESP_OK THEN d ELSE ledc_duty
             /\ ledc_out' = IF set_done /\ rc_set = ESP_OK /\ rc_update = ESP_OK
                            THEN d ELSE ledc_out
             /\ pc' = CheckAll(rcseq, "send")
             /\ err_site' = IF failed = "none" THEN err_site ELSE failed
             /\ n_drive' = n_drive + 1
    /\ UNCHANGED <<cycle, wifi, servo_cfg, ldr_east, ldr_west, sun_dir,
                   tilt_angle, url, http_err, n_read, n_send>>

\* send_to_thingspeak(ldr_east, ldr_west, sun_dir, tilt_angle)
send_to_thingspeak ==
    /\ pc = "send"
    /\ \E err \in PerformResults :
         /\ url' = thingspeak_url(ldr_east, ldr_west, sun_dir, tilt_angle)
         /\ http_err' = err
         /\ pc' = after_perform(err)
    /\ n_send' = n_send + 1
    /\ UNCHANGED <<cycle, wifi, servo_cfg, ldr_east, ldr_west, sun_dir,
                   tilt_angle, pulse_width_us, duty, ledc_duty, ledc_out,
                   err_site, n_read, n_drive>>

\* vTaskDelay(pdMS_TO_TICKS(15000)), then the next iteration of while (1)
CycleDelay ==
    /\ pc = "delay"
    /\ cycle < MaxCycles
    /\ pc' = "read"
    /\ cycle' = cycle + 1
    /\ UNCHANGED <<wifi, servo_cfg, ldr_east, ldr_west, sun_dir, tilt_angle,
                   pulse_width_us, duty, ledc_duty, ledc_out, url, http_err,
                   err_site, n_read, n_drive, n_send>>

---------------------------------------------------------------------------
(* The program *)

Init ==
    /\ pc = "servo_setup"
    /\ cycle = 0
    /\ wifi = "off"
    /\ servo_cfg = DefaultServoCfg
    /\ ldr_east = 0
    /\ ldr_west = 0
    /\ sun_dir = 0
    /\ tilt_angle = 0
    /\ pulse_width_us = 0
    /\ duty = 0
    /\ ledc_duty = 0
    /\ ledc_out = 0
    /\ url = NoUrl
    /\ http_err = "none"
    /\ err_site = "none"
    /\ n_read = 0
    /\ n_drive = 0
    /\ n_send = 0

Next ==
    \/ ServoSetup
    \/ adc_init_oneshot
    \/ wifi_init
    \/ WifiConnected
    \/ SettleDelay
    \/ read_ldr_values
    \/ DetectStep
    \/ TiltStep
    \/ set_servo_angle
    \/ send_to_thingspeak
    \/ CycleDelay

Spec == Init /\ [][Next]_vars

---------------------------------------------------------------------------
(* The functions on their own: each is entered with arguments drawn from    *)
(* bounded sets, wider than what the loop ever passes.                      *)

DirectionArgs == (SUN_EAST - MaxStray)..(SUN_WEST + MaxStray)

AngleArgs == (0 - MaxOver)..(180 + MaxOver)

\* Builds with other SERVO_* values: pulse bounds in microseconds with
\* 0 <= min <= max <= period, and two PWM resolutions.
ServoCfgs ==
    {c \in [min_us : {0, 500, 1000, 2500}, max_us : {1000, 2400, 2500, 20000},
            period_us : {2500, 20000}, max_duty : {255, 8191}] :
        c.min_us <= c.max_us /\ c.max_us <= c.period_us}

FnInit ==
    /\ cycle = 1
    /\ wifi = "off"
    /\ pulse_width_us = 0
    /\ duty = 0
    /\ ledc_duty = 0
    /\ ledc_out = 0
    /\ url = NoUrl
    /\ http_err = "none"
    /\ err_site = "none"
    /\ n_read = 0
    /\ n_drive = 0
    /\ n_send = 0
    /\ \/ /\ pc = "tilt"
          /\ ldr_east = 0
          /\ ldr_west = 0
          /\ sun_dir \in DirectionArgs
          /\ tilt_angle = 0
          /\ servo_cfg = DefaultServoCfg
       \/ /\ pc = "servo"
          /\ ldr_east = 0
          /\ ldr_west = 0
          /\ sun_dir = 0
          /\ tilt_angle \in AngleArgs
          /\ servo_cfg \in ServoCfgs \cup {DefaultServoCfg}

FnNext ==
    \/ TiltStep
    \/ set_servo_angle

FnSpec == FnInit /\ [][FnNext]_vars

---------------------------------------------------------------------------
(* Vocabulary of the properties *)

LoopPcs == {"read", "detect", "tilt", "servo", "send", "delay"}

SensorCalls == {"adc_oneshot_read_east", "adc_oneshot_read_west"}

ActuatorCalls == {"ledc_set_duty", "ledc_update_duty"}

\* The task has classified the readings of the current iteration.
Classified ==
    \/ pc \in {"tilt", "servo", "send", "delay"}
    \/ pc = "aborted" /\ err_site \in ActuatorCalls

\* set_servo_angle has run on tilt_angle.
Driven ==
    \/ pc \in {"send", "delay"}
    \/ pc = "aborted" /\ err_site \in ActuatorCalls

\* The duty the documented formula gives for an angle of 0..180 degrees.
FormulaDuty(a, cfg) ==
    ((cfg.min_us + (a * (cfg.max_us - cfg.min_us)) \div 180) * cfg.max_duty)
        \div cfg.period_us

\* atoi of a %d field
RECURSIVE ParseDigits(_)
ParseDigits(s) ==
    IF s = <<>> THEN 0
    ELSE 10 * ParseDigits(SubSeq(s, 1, Len(s) - 1)) + (s[Len(s)] - 48)

ParseD(s) ==
    IF s # <<>> /\ Head(s) = 45 THEN -ParseDigits(Tail(s)) ELSE ParseDigits(s)

---------------------------------------------------------------------------
(* C1: once an iteration has classified its readings, sun_dir is SUN_EAST   *)
(* exactly when ldr_east - ldr_west > 150, SUN_WEST exactly when it is      *)
(* < -150, and SUN_OVERHEAD otherwise; a difference of exactly 150 or -150  *)
(* gives SUN_OVERHEAD.                                                      *)
C1_Classification ==
    Classified =>
        /\ (sun_dir = SUN_EAST) <=> (ldr_east - ldr_west > 150)
        /\ (sun_dir = SUN_WEST) <=> (ldr_east - ldr_west < -150)
        /\ (sun_dir = SUN_OVERHEAD) <=>
              (ldr_east - ldr_west >= -150 /\ ldr_east - ldr_west <= 150)
        /\ sun_dir \in {SUN_EAST, SUN_OVERHEAD, SUN_WEST}

C1_Witness ==
    /\ pc = "tilt"
    /\ cycle = 2
    /\ ldr_east - ldr_west = -150
    /\ sun_dir = SUN_OVERHEAD

(* C2: every step that computes the tilt angle yields 30 for SUN_EAST (0),  *)
(* 90 for SUN_OVERHEAD (1), 150 for SUN_WEST (2) and 90 for any other       *)
(* integer, so the angle is always one of 30, 90, 150.                      *)
C2_TiltTotal ==
    [][(pc = "tilt" /\ pc' # "tilt") =>
         /\ sun_dir = 0 => tilt_angle' = 30
         /\ sun_dir = 1 => tilt_angle' = 90
         /\ sun_dir = 2 => tilt_angle' = 150
         /\ sun_dir \notin {0, 1, 2} => tilt_angle' = 90
         /\ tilt_angle' \in {30, 90, 150}]_vars

C2_Witness ==
    /\ pc = "servo"
    /\ sun_dir = SUN_EAST - MaxStray
    /\ tilt_angle = 90

(* C3: set_servo_angle hands the driver the duty of the clamped angle: for  *)
(* an angle below 0 the duty of 0 degrees, for an angle above 180 the duty  *)
(* of 180 degrees, and for an angle within 0..180 the duty of that angle.   *)
C3_ClampedBeforeMapping ==
    Driven =>
        /\ tilt_angle < 0 => duty = FormulaDuty(0, servo_cfg)
        /\ tilt_angle > 180 => duty = FormulaDuty(180, servo_cfg)
        /\ tilt_angle \in 0..180 => duty = FormulaDuty(tilt_angle, servo_cfg)

C3_Witness ==
    /\ pc = "send"
    /\ tilt_angle = 180 + MaxOver
    /\ servo_cfg = DefaultServoCfg
    /\ duty = 982
    /\ ledc_out = 982

(* C4: for an angle within 0..180 and pulse bounds with                     *)
(* 0 <= min_us <= max_us <= period_us, the duty handed to the driver is     *)
(* within 0..max_duty, and so is every duty the LEDC channel holds.         *)
C4_DutyInRange ==
    /\ (Driven /\ tilt_angle \in 0..180) =>
          (0 <= duty /\ duty <= servo_cfg.max_duty)
    /\ 0 <= ledc_duty /\ ledc_duty <= servo_cfg.max_duty
    /\ 0 <= ledc_out /\ ledc_out <= servo_cfg.max_duty

C4_Witness ==
    /\ pc = "send"
    /\ tilt_angle = 180
    /\ servo_cfg.min_us = servo_cfg.period_us
    /\ ledc_out = servo_cfg.max_duty
    /\ servo_cfg.max_duty = 8191

(* C5: with the default configuration, an iteration that read (2000, 1500)  *)
(* drives East, 30 degrees, 816 us, duty 334; one that read (1800, 1850)    *)
(* drives Overhead, 90 degrees, 1450 us, duty 593; one that read            *)
(* (1000, 1600) drives West, 150 degrees, 2083 us, duty 853.                *)
C5_Scenarios ==
    pc \in {"send", "delay"} =>
        /\ (ldr_east = 2000 /\ ldr_west = 1500) =>
              /\ sun_dir = SUN_EAST /\ tilt_angle = 30
              /\ pulse_width_us = 816 /\ duty = 334 /\ ledc_out = 334
        /\ (ldr_east = 1800 /\ ldr_west = 1850) =>
              /\ sun_dir = SUN_OVERHEAD /\ tilt_angle = 90
              /\ pulse_width_us = 1450 /\ duty = 593 /\ ledc_out = 593
        /\ (ldr_east = 1000 /\ ldr_west = 1600) =>
              /\ sun_dir = SUN_WEST /\ tilt_angle = 150
              /\ pulse_width_us = 2083 /\ duty = 853 /\ ledc_out = 853

C5_Witness ==
    /\ pc = "delay"
    /\ ldr_east = 1800
    /\ ldr_west = 1850
    /\ ledc_out = 593
    /\ url.field4 = <<57, 48>>

(* C6: a failed telemetry send is not fatal and does not touch the         *)
(* actuator: the send step, whatever esp_http_client_perform returns,       *)
(* leaves the duty and the LEDC channel as they are and goes on to the      *)
(* inter-cycle delay; the delay goes on to the sensor read of the next      *)
(* iteration; and the task is aborted only by a checked driver call.        *)
C6_UplinkFailureNotFatal ==
    /\ [][(pc = "send" /\ pc' # pc) =>
            /\ pc' = "delay"
            /\ http_err' \in EspErr
            /\ duty' = duty
            /\ ledc_duty' = ledc_duty
            /\ ledc_out' = ledc_out
            /\ err_site' = err_site]_vars
    /\ [][(pc = "delay" /\ pc' # pc) =>
            /\ pc' = "read"
            /\ cycle' = cycle + 1]_vars
    /\ [](pc = "aborted" => err_site # "none")

\* The iteration after a failed send has read its sensors and driven the servo.
C6_Witness ==
    /\ pc = "send"
    /\ cycle = 2
    /\ http_err = ESP_FAIL
    /\ n_send = 1
    /\ n_read = 2
    /\ n_drive = 2
    /\ ledc_out = duty

(* C7: a failed sensor read or actuator write aborts the task on the spot:  *)
(* a checked call that failed leaves the task aborted for good; after a     *)
(* failed sensor read the iteration has made no actuator write and no send; *)
(* after a failed actuator write it has made no send; and nothing happens   *)
(* after the abort.                                                         *)
C7_FailFast ==
    /\ [](err_site # "none" => pc = "aborted")
    /\ []((pc = "aborted" /\ err_site \in SensorCalls) =>
            (n_drive = cycle - 1 /\ n_send = cycle - 1))
    /\ []((pc = "aborted" /\ err_site \in ActuatorCalls) =>
            n_send = cycle - 1)
    /\ [][pc = "aborted" =>
            (pc' = "aborted" /\ cycle' = cycle /\ n_read' = n_read
             /\ n_drive' = n_drive /\ n_send' = n_send
             /\ ledc_duty' = ledc_duty /\ ledc_out' = ledc_out)]_vars

C7_Witness ==
    /\ pc = "aborted"
    /\ err_site = "adc_oneshot_read_west"
    /\ cycle = 2
    /\ n_drive = 1
    /\ n_send = 1

(* C8: no sensor read, actuator write or telemetry send of the loop happens *)
(* before the station is connected.                                         *)
C8_LoopOnlyWhenConnected ==
    (n_read > 0 \/ n_drive > 0 \/ n_send > 0) => wifi = "connected"

(* C9: the loop steps follow one another in the order read, classify,       *)
(* compute angle, drive, send, delay, read, ...; a send is made only after  *)
(* the servo of its iteration was driven, and the sensors are read again    *)
(* only after the send of the iteration before has returned.                *)
C9_StepOrder ==
    /\ [][(pc \in LoopPcs /\ pc' # pc) =>
            \/ <<pc, pc'>> \in {<<"read", "detect">>, <<"detect", "tilt">>,
                                <<"tilt", "servo">>, <<"servo", "send">>,
                                <<"send", "delay">>, <<"delay", "read">>}
            \/ pc \in {"read", "servo"} /\ pc' = "aborted"]_vars
    /\ [][n_send' # n_send => (n_send' = n_send + 1 /\ n_drive = n_send + 1)]_vars
    /\ [][n_drive' # n_drive => (n_drive' = n_drive + 1 /\ n_read = n_drive + 1)]_vars
    /\ [][n_read' # n_read => (n_read' = n_read + 1 /\ n_send = n_read)]_vars
    /\ [](n_send <= n_drive /\ n_drive <= n_read /\ n_read <= n_send + 1
          /\ n_read <= cycle)

C9_Witness ==
    /\ pc = "detect"
    /\ cycle = 3
    /\ n_read = 3
    /\ n_drive = 2
    /\ n_send = 2

(* C10: an iteration makes at most one send attempt; the request of that    *)
(* attempt carries the readings of the iteration, the ordinal of the        *)
(* direction they classify to (East 0, Overhead 1, West 2) and the angle    *)
(* whose duty was written to the servo in the iteration; the request is     *)
(* built nowhere but in the send step, so a failed one is never sent again. *)
C10_TelemetrySnapshot ==
    /\ [](n_send <= cycle)
    /\ [](pc \in (LoopPcs \ {"delay"}) => n_send = cycle - 1)
    /\ [](pc = "delay" =>
            /\ n_send = cycle
            /\ url.api_key = THINGSPEAK_API_KEY
            /\ ParseD(url.field1) = ldr_east
            /\ ParseD(url.field2) = ldr_west
            /\ ParseD(url.field3) = (IF ldr_east - ldr_west > 150 THEN 0
                                     ELSE IF ldr_east - ldr_west < -150 THEN 2
                                     ELSE 1)
            /\ ParseD(url.field4) = tilt_angle
            /\ ledc_out = FormulaDuty(tilt_angle, servo_cfg))
    /\ [][(url' # url \/ http_err' # http_err \/ n_send' # n_send) =>
            (pc = "send" /\ n_send' = n_send + 1)]_vars

C10_Witness ==
    /\ pc = "delay"
    /\ cycle = 2
    /\ http_err = ESP_FAIL
    /\ url.field1 = <<52, 48, 57, 53>>
    /\ url.field2 = <<48>>
    /\ url.field3 = <<48>>
    /\ url.field4 = <<51, 48>>

====
